---- MODULE Spec2Model ----
(***************************************************************************)
(* State-machine model of the main process of My_Daily_Calorie_Tracker:    *)
(* the IPC handlers of the record store (daily/{date}.md), the settings    *)
(* document (app-data.json), the session password and the saved password   *)
(* file, together with the two renderer handlers that drive login/logout.  *)
(*                                                                         *)
(* Text values are symbolic.  JSON.stringify(v) is [kind "json", value v]; *)
(* CryptoJS.AES.encrypt(t, p) is [kind "cipher", key p, plain t].          *)
(* Decrypting with another passphrase, or decrypting text that is no       *)
(* ciphertext, gives what CryptoJS gives: bytes that are no UTF-8 (the     *)
(* call throws), no bytes (""), bytes that are no JSON text, or a single   *)
(* digit.  That a wrong passphrase yields a JSON object is taken to be     *)
(* impossible.                                                             *)
(***************************************************************************)
EXTENDS Integers, Sequences, FiniteSets, TLC

VARIABLES dataPath,            \* let dataPath (main process memory)
          storedDataPath,      \* electron-store key 'dataPath' (survives a restart)
          encryptionPassword,  \* let encryptionPassword (main process memory)
          daily,               \* the files daily/{date}.md
          appData,             \* the file app-data.json
          passwordFile,        \* the file .password
          pending,             \* the fs.writeFile in flight, if any
          isAuthenticated,     \* renderer: App's isAuthenticated
          lastSaved,           \* history: the entry last saved for each date
          exportFile,          \* the file export-data wrote last
          rendererAppData,     \* renderer: App's appData state (None: null)
          ret                  \* the last handler that returned, its arguments and result

vars == <<dataPath, storedDataPath, encryptionPassword, daily, appData,
          passwordFile, pending, isAuthenticated, lastSaved, exportFile,
          rendererAppData, ret>>

----------------------------------------------------------------------------
(* Bounds and sample values *)

\* Number of calendar days the sample entries are drawn from.
MaxDay == 2

\* The most foods the library is filled with, and the most uses counted for one.
MaxFoods == 2

MaxUseCount == 2

\* The days of January 2026 the clock of the weight tracker runs through.
MaxWeightDay == 8

NULL == "null"
Root == "/data"
AppName == "daily-calorie-tracker"

Passwords == {"hunter2", "swordfish"}

None == [some |-> FALSE]
Some(v) == [some |-> TRUE, v |-> v]

\* JavaScript truthiness of a string-or-null value.
Truthy(s) == s # NULL /\ s # ""

----------------------------------------------------------------------------
(* Date strings: sequences of characters, so that the schema's regular     *)
(* expression, the >= / <= string comparisons and new Date(s).getTime()    *)
(* are each computed on the text.                                          *)

Digits == <<"0", "1", "2", "3", "4", "5", "6", "7", "8", "9">>

\* The number each digit character stands for.
DigitVals == [c \in {Digits[i] : i \in 1..10} |-> (CHOOSE i \in 1..10 : Digits[i] = c) - 1]

IsDigit(c) == c \in DOMAIN DigitVals

DigitVal(c) == DigitVals[c]

\* UTF-16 code unit of the characters that occur in the sample strings.
CharCode(c) == IF c = "-" THEN 45 ELSE IF c = ":" THEN 58 ELSE 48 + DigitVal(c)

\* "2026-01-DD" for day number n (n < 100), and its file name stem.
DateString(n) ==
    <<"2", "0", "2", "6", "-", "0", "1", "-", Digits[(n \div 10) + 1], Digits[(n % 10) + 1]>>

Dates == {DateString(8 + i) : i \in 1..MaxDay}

\* A string the date pattern rejects ("2026-1-9").
BadDate == <<"2", "0", "2", "6", "-", "1", "-", "9">>

\* z.string().regex(/^\d{4}-\d{2}-\d{2}$/)
MatchesDateRegex(s) ==
    /\ Len(s) = 10
    /\ \A i \in {1, 2, 3, 4, 6, 7, 9, 10} : IsDigit(s[i])
    /\ s[5] = "-"
    /\ s[8] = "-"

\* JavaScript's a < b on strings: by code unit, a proper prefix first.
RECURSIVE StrLess(_, _)
StrLess(a, b) ==
    IF b = <<>> THEN FALSE
    ELSE IF a = <<>> THEN TRUE
    ELSE IF CharCode(Head(a)) # CharCode(Head(b)) THEN CharCode(Head(a)) < CharCode(Head(b))
    ELSE StrLess(Tail(a), Tail(b))

StrGeq(a, b) == ~StrLess(a, b)

StrLeq(a, b) == ~StrLess(b, a)

\* Days from 1970-01-01 to the civil date y-m-d (proleptic Gregorian).
DaysFromCivil(y0, m, d) ==
    LET y   == IF m <= 2 THEN y0 - 1 ELSE y0
        era == y \div 400
        yoe == y - era * 400
        mp  == (m + 9) % 12
        doy == (153 * mp + 2) \div 5 + d - 1
        doe == yoe * 365 + yoe \div 4 - yoe \div 100 + doy
    IN  era * 146097 + doe - 719468

\* new Date("YYYY-MM-DD").getTime(): UTC midnight of that day, here in days
\* (getTime() / 86400000: the milliseconds exceed TLC's 32-bit integers, and
\* the sort reads only the sign of a difference).  Applied to calendar dates
\* only (the sample dates are all in January).
GetTime(s) ==
    LET y == 1000 * DigitVal(s[1]) + 100 * DigitVal(s[2]) + 10 * DigitVal(s[3]) + DigitVal(s[4])
        m == 10 * DigitVal(s[6]) + DigitVal(s[7])
        d == 10 * DigitVal(s[9]) + DigitVal(s[10])
    IN  DaysFromCivil(y, m, d)

----------------------------------------------------------------------------
(* Sample entries handed to save-daily-entry *)

Yogurt == [name |-> "Greek Yogurt", calories |-> 150, protein |-> 15, carbs |-> 8, fats |-> 4,
           servingSize |-> None]

Toast == [name |-> "Toast", calories |-> 90, protein |-> 3, carbs |-> 17, fats |-> 1,
          servingSize |-> Some("1 slice")]

Str0800 == <<"0", "8", ":", "0", "0">>

Str1100 == <<"1", "1", ":", "0", "0">>

Breakfast == [id |-> "m1", mealType |-> "breakfast", time |-> Str0800,
              foods |-> <<Yogurt, Toast>>, notes |-> None]

Brunch == [id |-> "m2", mealType |-> "brunch", time |-> Str1100,
           foods |-> <<Toast>>, notes |-> None]

Run == [id |-> "e1", type |-> "2G", caloriesBurned |-> 300, duration |-> Some(45), notes |-> None]

\* A full day: every optional field present, and a key the schema does not know.
FullDay(d) ==
    [id |-> Some(<<"x">>), date |-> d, meals |-> <<Breakfast>>,
     water |-> [glasses |-> 8, ounces |-> 64], exercise |-> Some(Run),
     weight |-> Some(180), notes |-> Some("Felt good"), tags |-> <<"cheat-day">>,
     extra |-> Some("x")]

\* A bare day: every optional field absent.
BareDay(d) ==
    [id |-> None, date |-> d, meals |-> <<>>,
     water |-> [glasses |-> 0, ounces |-> 0], exercise |-> None,
     weight |-> None, notes |-> None, tags |-> <<>>, extra |-> None]

Lunch == [id |-> "m3", mealType |-> "lunch", time |-> Str1100,
          foods |-> <<Toast, Toast>>, notes |-> None]

Rest == [id |-> "e2", type |-> "Other", caloriesBurned |-> 0, duration |-> None, notes |-> None]

\* A rest day: two meals, an exercise that burned nothing, and a weight of 0,
\* the least the schema admits.
RestDay(d) ==
    [id |-> None, date |-> d, meals |-> <<Breakfast, Lunch>>,
     water |-> [glasses |-> 3, ounces |-> 24], exercise |-> Some(Rest),
     weight |-> Some(0), notes |-> Some("Rest"), tags |-> <<"rest">>,
     extra |-> None]

ValidEntries == {FullDay(d) : d \in Dates} \cup {BareDay(d) : d \in Dates}

InvalidEntries ==
    {[FullDay(DateString(9)) EXCEPT !.water.glasses = 51],
     [BareDay(DateString(9)) EXCEPT !.meals = <<Brunch>>],
     BareDay(BadDate)}

Entries == ValidEntries \cup InvalidEntries

Str2400 == <<"2", "4", ":", "0", "0">>

\* A meal at a time no clock shows.
Supper == [id |-> "m4", mealType |-> "dinner", time |-> Str2400,
           foods |-> <<Toast>>, notes |-> None]

\* Days for 2026-01-09 that break none, one or several of the schema's rules
\* at once: each field drawn from a value the schema admits and values it does not.
ValidationInputs ==
    {[FullDay(dt) EXCEPT !.meals = ms, !.water = [glasses |-> g, ounces |-> o], !.weight = w] :
        dt \in {DateString(9), BadDate},
        ms \in {<<Breakfast>>, <<Brunch>>, <<Breakfast, Brunch>>, <<Supper>>, <<Brunch, Supper>>},
        g \in {8, 51},
        o \in {64, 401},
        w \in {None, Some(0), Some(1001)}}

\* The days the search and the export are run over.
QueryEntries == UNION {{FullDay(d), RestDay(d), BareDay(d)} : d \in Dates}

----------------------------------------------------------------------------
(* The text of the notes and food names, character by character, so that   *)
(* toLowerCase, trim and includes are each computed on the text.           *)

Chars(s) ==
    CASE s = "Greek Yogurt" -> <<"G", "r", "e", "e", "k", " ", "Y", "o", "g", "u", "r", "t">>
      [] s = "Toast"        -> <<"T", "o", "a", "s", "t">>
      [] s = "Felt good"    -> <<"F", "e", "l", "t", " ", "g", "o", "o", "d">>
      [] s = "Rest"         -> <<"R", "e", "s", "t">>
      [] s = ""             -> <<>>

UpperCase == <<"A", "B", "C", "D", "E", "F", "G", "H", "I", "J", "K", "L", "M",
               "N", "O", "P", "Q", "R", "S", "T", "U", "V", "W", "X", "Y", "Z">>

LowerCase == <<"a", "b", "c", "d", "e", "f", "g", "h", "i", "j", "k", "l", "m",
               "n", "o", "p", "q", "r", "s", "t", "u", "v", "w", "x", "y", "z">>

\* String.prototype.toLowerCase, on the ASCII letters.
ToLowerCase(s) ==
    [i \in DOMAIN s |->
        IF \E k \in DOMAIN UpperCase : UpperCase[k] = s[i]
        THEN LowerCase[CHOOSE k \in DOMAIN UpperCase : UpperCase[k] = s[i]]
        ELSE s[i]]

\* String.prototype.includes
Includes(s, q) == \E i \in 0..(Len(s) - Len(q)) : SubSeq(s, i + 1, i + Len(q)) = q

WhiteSpace == {" ", "\t", "\n"}

\* Whether `query && query.trim()` is falsy: the text is empty, or white
\* space throughout.
IsBlank(query) == \A i \in DOMAIN query : query[i] \in WhiteSpace

\* The texts and tag lists search-entries is called with.
Queries == {<<>>, <<" ">>, <<"y", "o", "g", "u", "r", "t">>, <<"G", "O", "O", "D">>}

TagLists == {<<>>, <<"cheat-day">>, <<"rest", "vegan">>}

----------------------------------------------------------------------------
(* validation.ts: the zod schemas.  An issue is the path of the field that *)
(* failed; zod reports every issue of the value, not the first.  The       *)
(* checks on a field's JavaScript type are left out: every sample value    *)
(* has the type its schema asks for.                                       *)

\* z.string().regex(/^\d{2}:\d{2}$/)
MatchesTimeRegex(s) ==
    /\ Len(s) = 5
    /\ \A i \in {1, 2, 4, 5} : IsDigit(s[i])
    /\ s[3] = ":"

MealTypes == {"breakfast", "lunch", "dinner", "snack"}

ExerciseTypes == {"2G", "3G", "Tread 50", "Weight 50", "Other"}

\* Array index i (1-based here) as the path segment zod prints.
Idx(i) == Digits[i]

FoodItemIssues(f, path) ==
    {path \o <<k>> : k \in {n \in {"calories", "protein", "carbs", "fats"} : f[n] < 0}}
    \cup (IF f.name = "" THEN {path \o <<"name">>} ELSE {})

MealEntryIssues(m, path) ==
    (IF m.mealType \notin MealTypes THEN {path \o <<"mealType">>} ELSE {})
    \cup (IF ~MatchesTimeRegex(m.time) THEN {path \o <<"time">>} ELSE {})
    \cup UNION {FoodItemIssues(m.foods[i], path \o <<"foods", Idx(i)>>) : i \in DOMAIN m.foods}

ExerciseEntryIssues(x, path) ==
    (IF x.type \notin ExerciseTypes THEN {path \o <<"type">>} ELSE {})
    \cup (IF x.caloriesBurned < 0 THEN {path \o <<"caloriesBurned">>} ELSE {})
    \cup (IF x.duration.some /\ x.duration.v < 0 THEN {path \o <<"duration">>} ELSE {})

\* A water schema without its bounds.
WaterNoIssues(w, path) == {}

WaterIssues(w, path) ==
    (IF w.glasses < 0 \/ w.glasses > 50 THEN {path \o <<"glasses">>} ELSE {})
    \cup (IF w.ounces < 0 \/ w.ounces > 400 THEN {path \o <<"ounces">>} ELSE {})

\* A schema that stops at the first rule broken, in the order of its keys.
DailyEntryFirstIssue(e) ==
    LET meals == UNION {MealEntryIssues(e.meals[i], <<"meals", Idx(i)>>) : i \in DOMAIN e.meals}
        water == WaterIssues(e.water, <<"water">>)
    IN  IF ~MatchesDateRegex(e.date) THEN {<<"date">>}
        ELSE IF meals # {} THEN {CHOOSE p \in meals : TRUE}
        ELSE IF water # {} THEN {CHOOSE p \in water : TRUE}
        ELSE IF e.exercise.some /\ ExerciseEntryIssues(e.exercise.v, <<"exercise">>) # {}
        THEN {CHOOSE p \in ExerciseEntryIssues(e.exercise.v, <<"exercise">>) : TRUE}
        ELSE IF e.weight.some /\ (e.weight.v < 0 \/ e.weight.v > 1000) THEN {<<"weight">>}
        ELSE {}

DailyEntryIssues(e) ==
    (IF ~MatchesDateRegex(e.date) THEN {<<"date">>} ELSE {})
    \cup UNION {MealEntryIssues(e.meals[i], <<"meals", Idx(i)>>) : i \in DOMAIN e.meals}
    \cup WaterIssues(e.water, <<"water">>)
    \cup (IF e.exercise.some THEN ExerciseEntryIssues(e.exercise.v, <<"exercise">>) ELSE {})
    \cup (IF e.weight.some /\ (e.weight.v < 0 \/ e.weight.v > 1000) THEN {<<"weight">>} ELSE {})

\* What DailyEntrySchema.parse returns: the known keys only (z.object strips the rest).
DailyEntryParsed(e) == [e EXCEPT !.extra = None]

\* validateData(DailyEntrySchema, entry)
ValidateDailyEntry(e) ==
    IF DailyEntryIssues(e) = {}
    THEN [success |-> TRUE, data |-> DailyEntryParsed(e)]
    ELSE [success |-> FALSE, error |-> [kind |-> "Validation failed", issues |-> DailyEntryIssues(e)]]

----------------------------------------------------------------------------
(* Settings documents handed to save-app-data *)

\* The document get-app-data returns when app-data.json is absent.
DefaultAppData ==
    [goals |-> [dailyCalories |-> 2000, protein |-> 150, carbs |-> 200, fats |-> 65,
                targetWeight |-> Some(180), waterGlasses |-> 8],
     savedFoods |-> <<>>, recentMeals |-> <<>>, weightHistory |-> <<>>]

\* A document of the user's own: other goals, one saved food.
CustomAppData ==
    [goals |-> [dailyCalories |-> 1800, protein |-> 120, carbs |-> 180, fats |-> 60,
                targetWeight |-> None, waterGlasses |-> 10],
     savedFoods |-> <<[id |-> "f1", name |-> "Greek Yogurt", calories |-> 150, protein |-> 15,
                       carbs |-> 8, fats |-> 4, servingSize |-> None, category |-> None,
                       useCount |-> 0]>>,
     recentMeals |-> <<>>, weightHistory |-> <<>>]

ValidAppData == {CustomAppData}

\* dailyCalories below the schema's minimum of 500.
InvalidAppData == {[CustomAppData EXCEPT !.goals.dailyCalories = 100]}

AppDatas == ValidAppData \cup InvalidAppData

\* The documents the settings screens save: the defaults as loaded, or the
\* user's own document, or an invalid one.
SettingsDocs == {DefaultAppData, CustomAppData} \cup InvalidAppData

Between(x, lo, hi) == lo <= x /\ x <= hi

UserGoalsIssues(g, path) ==
    (IF ~Between(g.dailyCalories, 500, 10000) THEN {path \o <<"dailyCalories">>} ELSE {})
    \cup (IF ~Between(g.protein, 0, 500) THEN {path \o <<"protein">>} ELSE {})
    \cup (IF ~Between(g.carbs, 0, 1000) THEN {path \o <<"carbs">>} ELSE {})
    \cup (IF ~Between(g.fats, 0, 500) THEN {path \o <<"fats">>} ELSE {})
    \cup (IF ~Between(g.waterGlasses, 0, 50) THEN {path \o <<"waterGlasses">>} ELSE {})
    \cup (IF g.targetWeight.some /\ ~Between(g.targetWeight.v, 0, 1000)
          THEN {path \o <<"targetWeight">>} ELSE {})

SavedFoodIssues(f, path) ==
    FoodItemIssues(f, path)
    \cup (IF f.useCount < 0 THEN {path \o <<"useCount">>} ELSE {})

WeightEntryIssues(w, path) ==
    (IF ~MatchesDateRegex(w.date) THEN {path \o <<"date">>} ELSE {})
    \cup (IF ~Between(w.weight, 0, 1000) THEN {path \o <<"weight">>} ELSE {})

AppDataIssues(a) ==
    UNION {SavedFoodIssues(a.savedFoods[i], <<"savedFoods", Idx(i)>>) : i \in DOMAIN a.savedFoods}
    \cup UNION {MealEntryIssues(a.recentMeals[i], <<"recentMeals", Idx(i)>>) : i \in DOMAIN a.recentMeals}
    \cup UserGoalsIssues(a.goals, <<"goals">>)
    \cup UNION {WeightEntryIssues(a.weightHistory[i], <<"weightHistory", Idx(i)>>) :
                    i \in DOMAIN a.weightHistory}

\* validateData(AppDataSchema, data)
ValidateAppData(a) ==
    IF AppDataIssues(a) = {}
    THEN [success |-> TRUE, data |-> a]
    ELSE [success |-> FALSE, error |-> [kind |-> "Validation failed", issues |-> AppDataIssues(a)]]

----------------------------------------------------------------------------
(* Text, cipher and files *)

\* JSON.stringify(v, null, 2)
JsonText(v) == [kind |-> "json", value |-> v]

\* A password as written to .password (the text itself, not JSON).
PlainText(s) == [kind |-> "plain", value |-> s]

EmptyText == [kind |-> "empty"]

GarbageText == [kind |-> "garbage"]

\* '[Unable to decrypt entry]'
SentinelText == [kind |-> "sentinel"]

\* encrypt(text, password): CryptoJS.AES.encrypt(text, password).toString()
Encrypt(text, password) == [kind |-> "cipher", key |-> password, plain |-> text]

\* What JSON.parse makes of a text that is one digit: a number, not an object.
ScalarValue == [scalar |-> "6"]

\* decrypt(encryptedText, password): every outcome the call can have.  Under
\* the key the text was encrypted with it returns the plain text.  Under any
\* other key AES yields unrelated bytes, and Pkcs7.unpad drops as many of them
\* as the last byte says without checking them: toString(Utf8) throws
\* 'Malformed UTF-8 data', or returns '' (all bytes dropped), or returns the
\* bytes left when they happen to be UTF-8: some text that is no JSON, or (one
\* byte left, a digit) a text JSON.parse accepts.  Of no text there is
\* nothing to decrypt: the result is ''.
DecryptOutcomes(encryptedText, password) ==
    IF encryptedText.kind = "cipher" /\ encryptedText.key = password
    THEN {[throws |-> FALSE, text |-> encryptedText.plain]}
    ELSE IF encryptedText.kind = "empty"
    THEN {[throws |-> FALSE, text |-> EmptyText]}
    ELSE {[throws |-> TRUE, text |-> EmptyText],
          [throws |-> FALSE, text |-> EmptyText],
          [throws |-> FALSE, text |-> GarbageText],
          [throws |-> FALSE, text |-> JsonText(ScalarValue)]}

\* Whether JSON.parse(text) returns (else it throws a SyntaxError).
JsonParses(text) == text.kind = "json"

\* A path with nothing at it.
NoFile == [kind |-> "absent"]

\* A file fs.writeFile has opened (and so truncated) and not yet written in full.
TornFile == [kind |-> "torn"]

Exists(file) == file.kind # "absent"

\* The front matter and body gray-matter reads from a file's text.
Matter(file) ==
    IF file.kind = "record" THEN [data |-> file.data, content |-> file.content]
    ELSE [data |-> [date |-> None], content |-> EmptyText]

\* The text an app-data.json or .password file holds.
FileText(file) == IF file.kind = "text" THEN file.content ELSE EmptyText

TextFile(text) == [kind |-> "text", content |-> text]

----------------------------------------------------------------------------
(* get-daily-entries *)

RECURSIVE SumSeq(_)
SumSeq(ns) == IF ns = <<>> THEN 0 ELSE Head(ns) + SumSeq(Tail(ns))

\* meals.reduce((sum, meal) => sum + meal.foods.reduce((mSum, food) => mSum + food.calories, 0), 0)
TotalCalories(meals) ==
    SumSeq([i \in DOMAIN meals |->
              SumSeq([j \in DOMAIN meals[i].foods |-> meals[i].foods[j].calories])])

\* Whether a parsed JSON value has keys for { ...entry } to copy.
IsObject(v) == "scalar" \notin DOMAIN v

\* Whether e.date is a string (else it is undefined).
HasDate(e) == "date" \in DOMAIN e

\* Every value the body of the mdFiles.map callback can come to for the file of
\* `date`: the entry it returns, or a rejection (JSON.parse threw).  The
\* entry has the keys of the parsed object (none when it is a number), then
\* id, then date (undefined when neither the front matter nor the entry has one).
ReadEntryOutcomes(date, file, password) ==
    LET m == Matter(file)
        entryContents ==
            IF Truthy(password)
            THEN {IF o.throws THEN SentinelText ELSE o.text :
                      o \in DecryptOutcomes(m.content, password)}
            ELSE {m.content}
    IN  {IF ~JsonParses(c) THEN [ok |-> FALSE]
         ELSE IF IsObject(c.value)
         THEN [ok |-> TRUE,
               entry |-> [c.value EXCEPT !.id = Some(date),
                                         !.date = IF m.data.date.some THEN m.data.date.v
                                                  ELSE c.value.date]]
         ELSE IF m.data.date.some
         THEN [ok |-> TRUE, entry |-> [id |-> Some(date), date |-> m.data.date.v]]
         ELSE [ok |-> TRUE, entry |-> [id |-> Some(date)]]
         : c \in entryContents}

\* The orders fs.readdir may list the files of `names` in.
Enumerations(names) ==
    {order \in [1..Cardinality(names) -> names] :
        \A i, j \in DOMAIN order : i # j => order[i] # order[j]}

\* new Date(e.date).getTime() of each entry in turn (None: NaN, of a date
\* that is undefined).
RECURSIVE Times(_)
Times(entries) ==
    IF entries = <<>> THEN <<>>
    ELSE <<IF HasDate(Head(entries)) THEN Some(GetTime(Head(entries).date)) ELSE None>>
         \o Times(Tail(entries))

\* The stable order of the indices of `times` under the comparator
\* (a, b) => time(b) - time(a), a NaN result counting as 0: an index is
\* preceded by those the comparator puts before it and, among those it ties
\* with, by the ones that came first.
StableOrder(times) ==
    LET Compare(a, b) == IF a.some /\ b.some THEN b.v - a.v ELSE 0
        Before(j, i) ==
            \/ Compare(times[j], times[i]) < 0
            \/ /\ Compare(times[j], times[i]) = 0
               /\ j < i
        Pos(i) == 1 + Cardinality({j \in DOMAIN times : Before(j, i)})
    IN  [p \in DOMAIN times |-> CHOOSE i \in DOMAIN times : Pos(i) = p]

\* Array.prototype.sort with (a, b) => new Date(b.date).getTime() - new
\* Date(a.date).getTime(): a stable sort, most recent first.
SortByDateDesc(entries) ==
    LET order == StableOrder(Times(entries))
    IN  [p \in DOMAIN entries |-> entries[order[p]]]

\* Lines 234-243: the two filters, then the sort.
FilterAndSort(entries, startDate, endDate) ==
    LET AfterStart(e) == HasDate(e) /\ StrGeq(e.date, startDate.v)
        BeforeEnd(e)  == HasDate(e) /\ StrLeq(e.date, endDate.v)
        f1 == IF startDate.some /\ startDate.v # <<>> THEN SelectSeq(entries, AfterStart)
              ELSE entries
        f2 == IF endDate.some /\ endDate.v # <<>> THEN SelectSeq(f1, BeforeEnd) ELSE f1
    IN  SortByDateDesc(f2)

\* The .md files of daily/.
MdFiles(dir) == {d \in DOMAIN dir : Exists(dir[d])}

\* Every outcome of the mdFiles.map callbacks for the files listed in `order`:
\* one read outcome for each file, in that order.
RECURSIVE ReadAllOutcomes(_, _, _)
ReadAllOutcomes(order, dir, password) ==
    IF order = <<>> THEN {<<>>}
    ELSE {<<o>> \o rest : o \in ReadEntryOutcomes(Head(order), dir[Head(order)], password),
                          rest \in ReadAllOutcomes(Tail(order), dir, password)}

\* Every value get-daily-entries can return in a state with these files and
\* this session password: Promise.all rejects as soon as one callback does,
\* and the handler's catch turns that into [].
DailyEntriesOutcomes(dir, password, path, startDate, endDate) ==
    IF path = NULL THEN {<<>>}
    ELSE {IF \E i \in DOMAIN reads : ~reads[i].ok THEN <<>>
          ELSE FilterAndSort([i \in DOMAIN reads |-> reads[i].entry], startDate, endDate)
          : reads \in UNION {ReadAllOutcomes(order, dir, password) :
                                order \in Enumerations(MdFiles(dir))}}

\* Lines 403-423: the text filter, then the tag filter, as Array.filter runs
\* them; `throws` when a callback reads .some of a missing meals or .includes
\* of a missing tags (an entry parsed from a number has neither).
FilterByQueryAndTags(entries, query, tags) ==
    LET lowerQuery == ToLowerCase(query)
        HasMeals(e) == "meals" \in DOMAIN e
        NotesMatch(e) ==
            /\ "notes" \in DOMAIN e
            /\ e.notes.some
            /\ Includes(ToLowerCase(Chars(e.notes.v)), lowerQuery)
        FoodMatch(e) ==
            \E i \in DOMAIN e.meals : \E j \in DOMAIN e.meals[i].foods :
                Includes(ToLowerCase(Chars(e.meals[i].foods[j].name)), lowerQuery)
        TextMatch(e) == NotesMatch(e) \/ (HasMeals(e) /\ FoodMatch(e))
        textThrows ==
            /\ ~IsBlank(query)
            /\ \E i \in DOMAIN entries : ~NotesMatch(entries[i]) /\ ~HasMeals(entries[i])
        f1 == IF ~IsBlank(query) THEN SelectSeq(entries, TextMatch) ELSE entries
        TagMatch(e) ==
            /\ "tags" \in DOMAIN e
            /\ \E k \in DOMAIN tags : \E t \in DOMAIN e.tags : e.tags[t] = tags[k]
        tagThrows == tags # <<>> /\ \E i \in DOMAIN f1 : "tags" \notin DOMAIN f1[i]
        f2 == IF tags # <<>> THEN SelectSeq(f1, TagMatch) ELSE f1
    IN  IF textThrows \/ tagThrows THEN [throws |-> TRUE] ELSE [throws |-> FALSE, filtered |-> f2]

\* Every value search-entries can return: the entries in the order readdir
\* listed their files, filtered, and [] when a read or a filter threw.
SearchOutcomes(dir, password, path, query, tags) ==
    IF path = NULL THEN {<<>>}
    ELSE {IF \E i \in DOMAIN reads : ~reads[i].ok THEN <<>>
          ELSE LET r == FilterByQueryAndTags([i \in DOMAIN reads |-> reads[i].entry], query, tags)
               IN  IF r.throws THEN <<>> ELSE r.filtered
          : reads \in UNION {ReadAllOutcomes(order, dir, password) :
                                order \in Enumerations(MdFiles(dir))}}

\* The decimal text a template literal makes of a non-negative integer.
RECURSIVE NumText(_)
NumText(n) == IF n < 10 THEN <<Digits[n + 1]>> ELSE NumText(n \div 10) \o <<Digits[(n % 10) + 1]>>

\* 'Date,Total Calories,Protein,Carbs,Fats,Exercise Calories,Weight,Water Glasses\n'
CsvHeader == <<"Date", "Total Calories", "Protein", "Carbs", "Fats", "Exercise Calories",
               "Weight", "Water Glasses">>

\* The sum of one nutrient over all foods of all meals (the reduce of lines 487-495).
Total(meals, nutrient) ==
    SumSeq([i \in DOMAIN meals |->
              SumSeq([j \in DOMAIN meals[i].foods |-> meals[i].foods[j][nutrient]])])

\* Line 497: the fields of one row, each the text between two commas.
\* `x || y` takes y when x is undefined and also when x is 0.
CsvRow(entry) ==
    LET exerciseCalories ==
            IF entry.exercise.some /\ entry.exercise.v.caloriesBurned # 0
            THEN entry.exercise.v.caloriesBurned ELSE 0
        weight == IF entry.weight.some /\ entry.weight.v # 0 THEN NumText(entry.weight.v)
                  ELSE <<>>
    IN  <<entry.date,
          NumText(Total(entry.meals, "calories")), NumText(Total(entry.meals, "protein")),
          NumText(Total(entry.meals, "carbs")), NumText(Total(entry.meals, "fats")),
          NumText(exerciseCalories), weight, NumText(entry.water.glasses)>>

\* The csv text: the header line, then one line for each row.
CsvText(rows) == [kind |-> "csv", header |-> CsvHeader, rows |-> rows]

\* Every outcome of export-data once the save dialog named a file: the text
\* written there, or a failure with nothing written (no data folder, a read
\* that threw, or an entry without meals in the csv loop).
ExportOutcomes(dir, password, path, format, startDate, endDate) ==
    IF path = NULL THEN {[success |-> FALSE]}
    ELSE {IF \E i \in DOMAIN reads : ~reads[i].ok THEN [success |-> FALSE]
          ELSE LET entries == FilterAndSort([i \in DOMAIN reads |-> reads[i].entry],
                                            startDate, endDate)
               IN  IF format = "json"
                   THEN [success |-> TRUE, text |-> JsonText(entries)]
                   ELSE IF \E i \in DOMAIN entries : "meals" \notin DOMAIN entries[i]
                   THEN [success |-> FALSE]
                   ELSE [success |-> TRUE,
                         text |-> CsvText([i \in DOMAIN entries |-> CsvRow(entries[i])])]
          : reads \in UNION {ReadAllOutcomes(order, dir, password) :
                                order \in Enumerations(MdFiles(dir))}}

----------------------------------------------------------------------------
(* Initial state: the process has just started on an empty data folder *)

NoWrite == [kind |-> "none"]

\* What a handler leaves behind: its name, its arguments, its return value,
\* and (history) the file that was at the path it wrote or removed.
Ret(op, arg, val) == [op |-> op, arg |-> arg, val |-> val, was |-> [kind |-> "absent"]]

\* No reply is waiting to be read.
Idle == Ret("idle", <<>>, <<>>)

Init ==
    /\ dataPath = NULL
    /\ storedDataPath = NULL
    /\ encryptionPassword = NULL
    /\ daily = [d \in Dates |-> NoFile]
    /\ appData = NoFile
    /\ passwordFile = NoFile
    /\ pending = NoWrite
    /\ isAuthenticated = FALSE
    /\ lastSaved = [d \in Dates |-> None]
    /\ exportFile = NoFile
    /\ rendererAppData = None
    /\ ret = Idle

\* ensureDataPath() throws when no data folder was selected.
ErrNoDataPath == [kind |-> "Error: Data path not set. Please select a data folder first.",
                  issues |-> {}]

\* fs.unlink of a path with no file.
ErrNoEntry == [kind |-> "Error: ENOENT: no such file or directory", issues |-> {}]

Failure(error) == [success |-> FALSE, error |-> error]

\* A writeFile that leaves a record file that exists as it is.
WriteFileKeepExisting(target, date, file) ==
    /\ daily' = IF target = "daily" /\ ~Exists(daily[date])
                THEN [daily EXCEPT ![date] = file] ELSE daily
    /\ appData' = IF target = "app-data.json" THEN file ELSE appData
    /\ passwordFile' = IF target = ".password" THEN file ELSE passwordFile

\* A writeFile that leaves a settings document that exists as it is.
WriteFileKeepSettings(target, date, file) ==
    /\ daily' = IF target = "daily" THEN [daily EXCEPT ![date] = file] ELSE daily
    /\ appData' = IF target = "app-data.json" /\ ~Exists(appData) THEN file ELSE appData
    /\ passwordFile' = IF target = ".password" THEN file ELSE passwordFile

\* fs.writeFile(path, file): the file at `target` (of daily/, with `date`) is replaced.
\* A writeFile of a record that lands on every record file of the directory.
WriteFileAllDates(target, date, file) ==
    /\ daily' = IF target = "daily" THEN [d \in DOMAIN daily |-> file] ELSE daily
    /\ appData' = IF target = "app-data.json" THEN file ELSE appData
    /\ passwordFile' = IF target = ".password" THEN file ELSE passwordFile

WriteFile(target, date, file) ==
    /\ daily' = IF target = "daily" THEN [daily EXCEPT ![date] = file] ELSE daily
    /\ appData' = IF target = "app-data.json" THEN file ELSE appData
    /\ passwordFile' = IF target = ".password" THEN file ELSE passwordFile

\* A handler reaches `await fs.writeFile(...)`.  When `atomic`, the write is
\* taken as one step with the handler's return; otherwise the file is opened
\* (truncated) now, and written when the I/O completes.
StartWrite(atomic, target, date, file, result, saved) ==
    IF atomic
    THEN /\ WriteFile(target, date, file)
         /\ pending' = NoWrite
         /\ ret' = result
         /\ lastSaved' = IF target = "daily" THEN [lastSaved EXCEPT ![date] = saved]
                         ELSE lastSaved
    ELSE /\ WriteFile(target, date, TornFile)
         /\ pending' = [kind |-> "write", target |-> target, date |-> date, file |-> file,
                        result |-> result, saved |-> saved]
         /\ UNCHANGED <<ret, lastSaved>>

\* The write in flight completes and its handler returns.
FinishWrite ==
    /\ ret = Idle
    /\ pending.kind = "write"
    /\ WriteFile(pending.target, pending.date, pending.file)
    /\ ret' = pending.result
    /\ lastSaved' = IF pending.target = "daily"
                    THEN [lastSaved EXCEPT ![pending.date] = pending.saved]
                    ELSE lastSaved
    /\ pending' = NoWrite
    /\ UNCHANGED <<dataPath, storedDataPath, exportFile, rendererAppData, encryptionPassword, isAuthenticated>>

----------------------------------------------------------------------------
(* IPC handlers *)

\* select-data-folder: the dialog is cancelled, or the folder is chosen.
SelectDataFolder ==
    /\ ret = Idle
    /\ \E canceled \in BOOLEAN :
          IF canceled
          THEN /\ ret' = Ret("select-data-folder", <<>>, NULL)
               /\ UNCHANGED <<dataPath, storedDataPath>>
          ELSE /\ dataPath' = Root
               /\ storedDataPath' = Root
               /\ ret' = Ret("select-data-folder", <<>>, Root)
    /\ UNCHANGED <<encryptionPassword, daily, appData, passwordFile, pending,
                   isAuthenticated, lastSaved, exportFile, rendererAppData>>

\* get-data-path
GetDataPath ==
    /\ ret = Idle
    /\ dataPath' = IF dataPath = NULL THEN storedDataPath ELSE dataPath
    /\ ret' = Ret("get-data-path", <<>>, dataPath')
    /\ UNCHANGED <<storedDataPath, exportFile, rendererAppData, encryptionPassword, daily, appData, passwordFile, pending,
                   isAuthenticated, lastSaved>>

\* A password file keyed by the password it holds.
PasswordFileOfOwnKey(password) == TextFile(Encrypt(PlainText(password), password))

\* The file set-password writes.
PasswordFileOf(password) == TextFile(Encrypt(PlainText(password), AppName))

\* set-password
SetPasswordStep(atomic, password, remember) ==
    /\ ret = Idle
    /\ pending = NoWrite
    /\ encryptionPassword' = password
    /\ LET result == Ret("set-password", [password |-> password, remember |-> remember], TRUE)
       IN  IF remember /\ Truthy(dataPath)
           THEN StartWrite(atomic, ".password", <<>>, PasswordFileOf(password), result, None)
           ELSE /\ ret' = result
                /\ UNCHANGED <<daily, appData, passwordFile, pending, lastSaved>>
    /\ UNCHANGED <<dataPath, storedDataPath, exportFile, rendererAppData, isAuthenticated>>

SetPassword(password, remember) == SetPasswordStep(TRUE, password, remember)

\* Every value get-saved-password can return (None: null).
SavedPasswordOutcomes ==
    IF dataPath = NULL \/ ~Exists(passwordFile) THEN {None}
    ELSE {IF o.throws THEN None
          ELSE IF o.text.kind = "plain" THEN Some(o.text.value)
          ELSE IF o.text.kind = "empty" THEN Some("")
          ELSE IF o.text.kind = "json" THEN Some(o.text.value.scalar)
          ELSE Some("garbage")
          : o \in DecryptOutcomes(FileText(passwordFile), AppName)}

\* get-saved-password
GetSavedPassword ==
    /\ ret = Idle
    /\ \E saved \in SavedPasswordOutcomes : ret' = Ret("get-saved-password", <<>>, saved)
    /\ UNCHANGED <<dataPath, storedDataPath, exportFile, rendererAppData, encryptionPassword, daily, appData, passwordFile,
                   pending, isAuthenticated, lastSaved>>

\* clear-saved-password
ClearSavedPassword ==
    /\ ret = Idle
    /\ pending = NoWrite
    /\ IF dataPath # NULL /\ Exists(passwordFile)
       THEN /\ passwordFile' = NoFile
            /\ ret' = Ret("clear-saved-password", <<>>, TRUE)
       ELSE /\ ret' = Ret("clear-saved-password", <<>>, FALSE)
            /\ UNCHANGED passwordFile
    /\ UNCHANGED <<dataPath, storedDataPath, exportFile, rendererAppData, encryptionPassword, daily, appData,
                   pending, isAuthenticated, lastSaved>>

\* A verify-password that accepts nothing while there is no settings document.
VerifyOutcomesNoBootstrap(password) ==
    IF dataPath = NULL \/ ~Exists(appData) THEN {FALSE}
    ELSE {~o.throws /\ JsonParses(o.text) : o \in DecryptOutcomes(FileText(appData), password)}

\* Every value verify-password can return for `password`.
VerifyOutcomes(password) ==
    IF dataPath = NULL THEN {FALSE}
    ELSE IF Exists(appData)
    THEN {~o.throws /\ JsonParses(o.text) : o \in DecryptOutcomes(FileText(appData), password)}
    ELSE {TRUE}

\* verify-password
VerifyPassword(password) ==
    /\ ret = Idle
    /\ \E isValid \in VerifyOutcomes(password) :
          /\ encryptionPassword' = IF isValid THEN password ELSE encryptionPassword
          /\ ret' = Ret("verify-password", [password |-> password], isValid)
    /\ UNCHANGED <<dataPath, storedDataPath, exportFile, rendererAppData, daily, appData, passwordFile, pending,
                   isAuthenticated, lastSaved>>

\* get-daily-entries
GetDailyEntries(startDate, endDate) ==
    /\ ret = Idle
    /\ \E entries \in DailyEntriesOutcomes(daily, encryptionPassword, dataPath, startDate, endDate) :
          ret' = Ret("get-daily-entries", [startDate |-> startDate, endDate |-> endDate], entries)
    /\ UNCHANGED <<dataPath, storedDataPath, exportFile, rendererAppData, encryptionPassword, daily, appData, passwordFile,
                   pending, isAuthenticated, lastSaved>>

\* Every value get-daily-entries can return once readdir has listed the files
\* of `order` and the reads run on the directory as it is by then: fs.readFile
\* of a name whose file is gone rejects (ENOENT), Promise.all with it, and the
\* handler's catch returns [].
ScanOutcomes(order, dir, password, startDate, endDate) ==
    IF \E i \in DOMAIN order : ~Exists(dir[order[i]]) THEN {<<>>}
    ELSE {IF \E i \in DOMAIN reads : ~reads[i].ok THEN <<>>
          ELSE FilterAndSort([i \in DOMAIN reads |-> reads[i].entry], startDate, endDate)
          : reads \in ReadAllOutcomes(order, dir, password)}

\* get-daily-entries up to the return of `await fs.readdir(dailyPath)`: the
\* names are listed, the files not yet read.
GetDailyEntriesBegin(startDate, endDate) ==
    /\ ret = Idle
    /\ pending = NoWrite
    /\ dataPath # NULL
    /\ \E order \in Enumerations(MdFiles(daily)) :
          pending' = [kind |-> "scan", order |-> order, startDate |-> startDate,
                      endDate |-> endDate]
    /\ UNCHANGED <<dataPath, storedDataPath, exportFile, rendererAppData, encryptionPassword, daily, appData,
                   passwordFile, isAuthenticated, lastSaved, ret>>

\* delete-daily-entry of a file that exists, run from its call to its return
\* while the listing waits for its reads; its reply goes to its own caller.
DeleteMidScan(entryId) ==
    /\ ret = Idle
    /\ pending.kind = "scan"
    /\ Exists(daily[entryId])
    /\ daily' = [daily EXCEPT ![entryId] = NoFile]
    /\ lastSaved' = [lastSaved EXCEPT ![entryId] = None]
    /\ UNCHANGED <<dataPath, storedDataPath, exportFile, rendererAppData, encryptionPassword, appData,
                   passwordFile, pending, isAuthenticated, ret>>

\* The reads of the listing in flight complete and get-daily-entries returns.
FinishScan ==
    /\ ret = Idle
    /\ pending.kind = "scan"
    /\ \E entries \in ScanOutcomes(pending.order, daily, encryptionPassword,
                                   pending.startDate, pending.endDate) :
          ret' = Ret("get-daily-entries",
                     [startDate |-> pending.startDate, endDate |-> pending.endDate,
                      listed |-> pending.order], entries)
    /\ pending' = NoWrite
    /\ UNCHANGED <<dataPath, storedDataPath, exportFile, rendererAppData, encryptionPassword, daily, appData,
                   passwordFile, isAuthenticated, lastSaved>>

\* Lines 262-283: the file save-daily-entry writes for a validated entry.
RecordFileOf(validatedEntry, password) ==
    LET contentJson == JsonText(validatedEntry)
        content     == IF Truthy(password) THEN Encrypt(contentJson, password) ELSE contentJson
    IN  [kind |-> "record",
         data |-> [date |-> Some(validatedEntry.date),
                   totalCalories |-> TotalCalories(validatedEntry.meals),
                   encrypted |-> Truthy(password)],
         content |-> content]

\* save-daily-entry
SaveDailyEntryStep(atomic, entry) ==
    /\ ret = Idle
    /\ pending = NoWrite
    /\ LET validation == ValidateDailyEntry(entry)
           Result(val) == Ret("save-daily-entry", [entry |-> entry], val)
       IN  IF dataPath = NULL
           THEN /\ ret' = Result(Failure(ErrNoDataPath))
                /\ UNCHANGED <<daily, appData, passwordFile, pending, lastSaved>>
           ELSE IF ~validation.success
           THEN /\ ret' = Result(Failure(validation.error))
                /\ UNCHANGED <<daily, appData, passwordFile, pending, lastSaved>>
           ELSE StartWrite(atomic, "daily", validation.data.date,
                           RecordFileOf(validation.data, encryptionPassword),
                           [Result([success |-> TRUE, id |-> validation.data.date])
                               EXCEPT !.was = daily[validation.data.date]],
                           Some(validation.data))
    /\ UNCHANGED <<dataPath, storedDataPath, exportFile, rendererAppData, encryptionPassword, isAuthenticated>>

SaveDailyEntry(entry) == SaveDailyEntryStep(TRUE, entry)

\* delete-daily-entry
DeleteDailyEntry(entryId) ==
    /\ ret = Idle
    /\ pending = NoWrite
    /\ IF dataPath = NULL
       THEN /\ ret' = Ret("delete-daily-entry", [entryId |-> entryId], Failure(ErrNoDataPath))
            /\ UNCHANGED <<daily, lastSaved>>
       ELSE IF ~Exists(daily[entryId])
       THEN /\ ret' = Ret("delete-daily-entry", [entryId |-> entryId], Failure(ErrNoEntry))
            /\ UNCHANGED <<daily, lastSaved>>
       ELSE /\ daily' = [daily EXCEPT ![entryId] = NoFile]
            /\ lastSaved' = [lastSaved EXCEPT ![entryId] = None]
            /\ ret' = [Ret("delete-daily-entry", [entryId |-> entryId], [success |-> TRUE])
                          EXCEPT !.was = daily[entryId]]
    /\ UNCHANGED <<dataPath, storedDataPath, exportFile, rendererAppData, encryptionPassword, appData, passwordFile,
                   pending, isAuthenticated>>

\* Every value get-app-data can return (None: null).
AppDataOutcomes ==
    IF dataPath = NULL THEN {None}
    ELSE IF ~Exists(appData) THEN {Some(DefaultAppData)}
    ELSE LET dataJsons == IF Truthy(encryptionPassword)
                          THEN DecryptOutcomes(FileText(appData), encryptionPassword)
                          ELSE {[throws |-> FALSE, text |-> FileText(appData)]}
         IN  {IF ~o.throws /\ JsonParses(o.text) THEN Some(o.text.value) ELSE None : o \in dataJsons}

\* A get-app-data that writes the defaults it returns.
GetAppDataPersisting ==
    /\ ret = Idle
    /\ \E data \in AppDataOutcomes : ret' = Ret("get-app-data", <<>>, data)
    /\ appData' = IF dataPath # NULL /\ ~Exists(appData)
                  THEN TextFile(JsonText(DefaultAppData)) ELSE appData
    /\ UNCHANGED <<dataPath, storedDataPath, exportFile, rendererAppData, encryptionPassword, daily, passwordFile,
                   pending, isAuthenticated, lastSaved>>

\* get-app-data
GetAppData ==
    /\ ret = Idle
    /\ \E data \in AppDataOutcomes : ret' = Ret("get-app-data", <<>>, data)
    /\ UNCHANGED <<dataPath, storedDataPath, exportFile, rendererAppData, encryptionPassword, daily, appData, passwordFile,
                   pending, isAuthenticated, lastSaved>>

\* Lines 356-361: the file save-app-data writes for a validated document.
AppDataFileOf(validated, password) ==
    LET content == JsonText(validated)
    IN  TextFile(IF Truthy(password) THEN Encrypt(content, password) ELSE content)

\* save-app-data
SaveAppDataStep(atomic, data) ==
    /\ ret = Idle
    /\ pending = NoWrite
    /\ LET validation == ValidateAppData(data)
           Result(val) == Ret("save-app-data", [data |-> data], val)
       IN  IF dataPath = NULL
           THEN /\ ret' = Result(Failure(ErrNoDataPath))
                /\ UNCHANGED <<daily, appData, passwordFile, pending, lastSaved>>
           ELSE IF ~validation.success
           THEN /\ ret' = Result(Failure(validation.error))
                /\ UNCHANGED <<daily, appData, passwordFile, pending, lastSaved>>
           ELSE StartWrite(atomic, "app-data.json", <<>>,
                           AppDataFileOf(validation.data, encryptionPassword),
                           [Result([success |-> TRUE]) EXCEPT !.was = appData], None)
    /\ UNCHANGED <<dataPath, storedDataPath, exportFile, rendererAppData, encryptionPassword, isAuthenticated>>

SaveAppData(data) == SaveAppDataStep(TRUE, data)

\* search-entries
SearchEntries(query, tags) ==
    /\ ret = Idle
    /\ \E filtered \in SearchOutcomes(daily, encryptionPassword, dataPath, query, tags) :
          ret' = Ret("search-entries", [query |-> query, tags |-> tags], filtered)
    /\ UNCHANGED <<dataPath, storedDataPath, exportFile, rendererAppData, encryptionPassword, daily, appData,
                   passwordFile, pending, isAuthenticated, lastSaved>>

\* export-data: the save dialog is canceled or names the export file, and
\* then the entries are read, filtered, sorted and written there.
ExportData(format, startDate, endDate) ==
    /\ ret = Idle
    /\ \E canceled \in BOOLEAN :
          LET Result(val) == Ret("export-data",
                                 [format |-> format, startDate |-> startDate,
                                  endDate |-> endDate, canceled |-> canceled], val)
          IN  IF canceled
              THEN /\ ret' = Result([success |-> FALSE])
                   /\ UNCHANGED exportFile
              ELSE \E o \in ExportOutcomes(daily, encryptionPassword, dataPath, format,
                                           startDate, endDate) :
                      /\ ret' = [Result([success |-> o.success]) EXCEPT !.was = exportFile]
                      /\ exportFile' = IF o.success THEN TextFile(o.text) ELSE exportFile
    /\ UNCHANGED <<dataPath, storedDataPath, encryptionPassword, daily, appData,
                   passwordFile, pending, isAuthenticated, lastSaved, rendererAppData>>

----------------------------------------------------------------------------
(* Renderer: the password screen and the logout button *)

\* PasswordScreen.handleSubmit: verify-password, then set-password.
HandleSubmit(password, rememberMe) ==
    /\ ret = Idle
    /\ pending = NoWrite
    /\ ~isAuthenticated
    /\ dataPath # NULL
    /\ password # ""
    /\ \E isValid \in VerifyOutcomes(password) :
          /\ ret' = Ret("handleSubmit", [password |-> password, rememberMe |-> rememberMe], isValid)
          /\ IF isValid
             THEN /\ encryptionPassword' = password
                  /\ passwordFile' = IF rememberMe THEN PasswordFileOf(password) ELSE passwordFile
                  /\ isAuthenticated' = TRUE
             ELSE UNCHANGED <<encryptionPassword, passwordFile, isAuthenticated>>
    /\ UNCHANGED <<dataPath, storedDataPath, exportFile, rendererAppData, daily, appData, pending, lastSaved>>

\* App.handleLogout: React state only (setAppData(null) among it); no IPC
\* call is made.
HandleLogout ==
    /\ ret = Idle
    /\ isAuthenticated
    /\ isAuthenticated' = FALSE
    /\ rendererAppData' = None
    /\ ret' = Ret("handleLogout", <<>>, <<>>)
    /\ UNCHANGED <<dataPath, storedDataPath, exportFile, encryptionPassword, daily, appData, passwordFile,
                   pending, lastSaved>>

\* What window.electronAPI.saveAppData(data) resolves to, and the file
\* app-data.json is after it: save-app-data run from its call to its return.
SaveAppDataResult(data) ==
    IF dataPath = NULL THEN Failure(ErrNoDataPath)
    ELSE IF ~ValidateAppData(data).success THEN Failure(ValidateAppData(data).error)
    ELSE [success |-> TRUE]

SaveAppDataFile(data) ==
    IF SaveAppDataResult(data).success
    THEN AppDataFileOf(ValidateAppData(data).data, encryptionPassword)
    ELSE appData

\* What setAppData leaves in App's state after `if (data) setAppData(data)`.
LoadedAppData(data) == IF data.some THEN data ELSE rendererAppData

\* App.loadAppData, called once the login is done and by Dashboard's
\* onDataChange: get-app-data, and the state is set when the result is not null.
LoadAppData ==
    /\ ret = Idle
    /\ pending = NoWrite
    /\ \E data \in AppDataOutcomes :
          /\ rendererAppData' = LoadedAppData(data)
          /\ ret' = Ret("loadAppData", <<>>, data)
    /\ UNCHANGED <<dataPath, storedDataPath, exportFile, encryptionPassword, daily, appData,
                   passwordFile, pending, isAuthenticated, lastSaved>>

\* The foods the form of the food library is filled in with: two of them
\* have the same name.
FoodForms ==
    {[name |-> "Greek Yogurt", calories |-> 150, protein |-> 15, carbs |-> 8, fats |-> 4,
      servingSize |-> None, category |-> Some("Dairy")],
     [name |-> "Greek Yogurt", calories |-> 100, protein |-> 17, carbs |-> 6, fats |-> 0,
      servingSize |-> Some("1 cup"), category |-> Some("Dairy")],
     [name |-> "Toast", calories |-> 90, protein |-> 3, carbs |-> 17, fats |-> 1,
      servingSize |-> Some("1 slice"), category |-> Some("Other")]}

\* `food-${Date.now()}` of the n-th food added: the clock moves on between
\* two submissions of the form, so each gets an id of its own.
FoodId == <<"food-1", "food-2", "food-3", "food-4">>

\* FoodLibrary.handleSaveFood in 'add' mode: the new food is appended to the
\* saved foods of the appData prop, the document saved, and on success
\* onDataUpdated (App.loadAppData) reloads it behind the loading screen.
HandleSaveFood(formData) ==
    /\ ret = Idle
    /\ pending = NoWrite
    /\ rendererAppData.some
    /\ Len(rendererAppData.v.savedFoods) < MaxFoods
    /\ LET doc == rendererAppData.v
           newFood == [id |-> FoodId[Len(doc.savedFoods) + 1], name |-> formData.name,
                       calories |-> formData.calories, protein |-> formData.protein,
                       carbs |-> formData.carbs, fats |-> formData.fats,
                       servingSize |-> formData.servingSize, category |-> formData.category,
                       useCount |-> 0]
           updated == [doc EXCEPT !.savedFoods = Append(doc.savedFoods, newFood)]
           result == SaveAppDataResult(updated)
       IN  /\ appData' = SaveAppDataFile(updated)
           /\ UNCHANGED <<dataPath, storedDataPath, exportFile, encryptionPassword, daily,
                          passwordFile, pending, isAuthenticated, lastSaved>>
           /\ IF result.success
              THEN \E data \in AppDataOutcomes' : rendererAppData' = LoadedAppData(data)
              ELSE UNCHANGED rendererAppData
           /\ ret' = [Ret("handleSaveFood", [formData |-> formData], result)
                         EXCEPT !.was = appData]

\* Lines 64-74 of MealLogger and 63-73 of QuickEntry: the library with the
\* use count of the selected food raised, as the map over the prop makes it.
WithUseCounted(doc, savedFood) ==
    LET updatedFood == [savedFood EXCEPT !.useCount = savedFood.useCount + 1]
    IN  [doc EXCEPT !.savedFoods =
            [k \in DOMAIN doc.savedFoods |->
                IF doc.savedFoods[k].name = savedFood.name THEN updatedFood
                ELSE doc.savedFoods[k]]]

\* MealLogger.handleAddSavedFood for the i-th saved food of the appData prop:
\* the document with the use count raised is saved; nothing reloads the prop.
HandleAddSavedFood(i) ==
    /\ ret = Idle
    /\ pending = NoWrite
    /\ rendererAppData.some
    /\ i \in DOMAIN rendererAppData.v.savedFoods
    /\ rendererAppData.v.savedFoods[i].useCount < MaxUseCount
    /\ LET savedFood == rendererAppData.v.savedFoods[i]
           updatedAppData == WithUseCounted(rendererAppData.v, savedFood)
       IN  /\ appData' = SaveAppDataFile(updatedAppData)
           /\ ret' = [Ret("handleAddSavedFood", [savedFood |-> savedFood],
                          SaveAppDataResult(updatedAppData)) EXCEPT !.was = appData]
    /\ UNCHANGED <<dataPath, storedDataPath, exportFile, rendererAppData, encryptionPassword,
                   daily, passwordFile, pending, isAuthenticated, lastSaved>>

\* QuickEntry.handleToggleFood for the i-th saved food of the appData prop:
\* a food already selected (by name) is deselected and nothing is saved;
\* otherwise the document with the use count raised is saved.
HandleToggleFood(i, isSelected) ==
    /\ ret = Idle
    /\ pending = NoWrite
    /\ rendererAppData.some
    /\ i \in DOMAIN rendererAppData.v.savedFoods
    /\ rendererAppData.v.savedFoods[i].useCount < MaxUseCount
    /\ LET food == rendererAppData.v.savedFoods[i]
           updatedAppData == WithUseCounted(rendererAppData.v, food)
           Result(val) == Ret("handleToggleFood", [savedFood |-> food, isSelected |-> isSelected],
                              val)
       IN  IF isSelected
           THEN /\ ret' = Result([success |-> FALSE, error |-> [kind |-> "deselected", issues |-> {}]])
                /\ UNCHANGED appData
           ELSE /\ appData' = SaveAppDataFile(updatedAppData)
                /\ ret' = [Result(SaveAppDataResult(updatedAppData)) EXCEPT !.was = appData]
    /\ UNCHANGED <<dataPath, storedDataPath, exportFile, rendererAppData, encryptionPassword,
                   daily, passwordFile, pending, isAuthenticated, lastSaved>>

\* The days `today` is drawn from.
WeightDays == {DateString(n) : n \in 1..MaxWeightDay}

\* differenceInDays(today, parseISO(entry.date)): the full days from the
\* local midnight that starts the entry's date to now, some time into today.
DaysDiff(today, date) == GetTime(today) - GetTime(date)

\* The entries of the history the filter of canLogToday keeps.
ThisWeekEntries(weightHistory, today) ==
    {i \in DOMAIN weightHistory :
        /\ DaysDiff(today, weightHistory[i].date) >= 0
        /\ DaysDiff(today, weightHistory[i].date) < 7}

\* A limit that lets a fourth entry in.
CanLogTodayUpToThree(weightHistory, today) ==
    Cardinality(ThisWeekEntries(weightHistory, today)) <= 3

\* WeightTracker.canLogToday
CanLogToday(weightHistory, today) ==
    Cardinality(ThisWeekEntries(weightHistory, today)) < 3

\* The weights typed into the form: none, a weight, and one above the schema's maximum.
Weights == {0, 180, 1001}

\* WeightTracker.handleAddWeight on the day `today` (the clock does not run
\* backwards: no entry of the history is dated after today).  A weight that
\* is not positive and a fourth entry of the week end in an alert; otherwise
\* the document with the new entry is saved, and on success onDataUpdated
\* (App.loadAppData) reloads it behind the loading screen.
HandleAddWeight(weight, today) ==
    /\ ret = Idle
    /\ pending = NoWrite
    /\ rendererAppData.some
    /\ \A i \in DOMAIN rendererAppData.v.weightHistory :
          DaysDiff(today, rendererAppData.v.weightHistory[i].date) >= 0
    /\ LET doc == rendererAppData.v
           newEntry == [weight |-> weight, date |-> today, notes |-> None]
           updated == [doc EXCEPT !.weightHistory = Append(doc.weightHistory, newEntry)]
           Result(val) == Ret("handleAddWeight", [weight |-> weight, today |-> today], val)
           Alert(text) == [success |-> FALSE, error |-> [kind |-> text, issues |-> {}]]
       IN  /\ UNCHANGED <<dataPath, storedDataPath, exportFile, encryptionPassword, daily,
                          passwordFile, pending, isAuthenticated, lastSaved>>
           /\ IF weight <= 0
              THEN /\ ret' = Result(Alert("Please enter a valid weight"))
                   /\ UNCHANGED <<appData, rendererAppData>>
              ELSE IF ~CanLogToday(doc.weightHistory, today)
              THEN /\ ret' = Result(Alert("You can only log weight 3 times per week"))
                   /\ UNCHANGED <<appData, rendererAppData>>
              ELSE /\ appData' = SaveAppDataFile(updated)
                   /\ IF SaveAppDataResult(updated).success
                      THEN \E data \in AppDataOutcomes' : rendererAppData' = LoadedAppData(data)
                      ELSE UNCHANGED rendererAppData
                   /\ ret' = [Result(SaveAppDataResult(updated)) EXCEPT !.was = appData]

\* The application quits (or is killed) and is started again: module-level
\* variables and React state start over, the files and electron-store stay.
\* A write in flight is lost; what it had opened stays as it is.  On mount
\* the renderer calls get-data-path, which restores the stored data path.
Relaunch ==
    /\ ret = Idle
    /\ dataPath' = storedDataPath
    /\ encryptionPassword' = NULL
    /\ isAuthenticated' = FALSE
    /\ rendererAppData' = None
    /\ pending' = NoWrite
    /\ ret' = Ret("get-data-path", <<>>, storedDataPath)
    /\ UNCHANGED <<storedDataPath, exportFile, daily, appData, passwordFile, lastSaved>>

\* The caller's await resolves: the reply is read.
Return ==
    /\ ret # Idle
    /\ ret' = Idle
    /\ UNCHANGED <<dataPath, storedDataPath, exportFile, rendererAppData, encryptionPassword, daily, appData, passwordFile,
                   pending, isAuthenticated, lastSaved>>

----------------------------------------------------------------------------
(* Specifications *)

OptDates == {None} \cup {Some(d) : d \in Dates}

\* The bounds the renderer calls get-daily-entries with: none (App,
\* loadAppData), or a first and a last day (MealLogger, StatsView, the calendar).
ListArgs ==
    {<<None, None>>}
    \cup {<<Some(r[1]), Some(r[2])>> : r \in {r \in Dates \X Dates : StrLeq(r[1], r[2])}}

\* The record store and the settings document behind one caller making one
\* call at a time: every handler runs to its return.  The password is not
\* remembered here; the password file and the screens are left to SpecSession.
Next ==
    \/ SelectDataFolder
    \/ GetDataPath
    \/ \E p \in Passwords : SetPassword(p, FALSE)
    \/ \E p \in Passwords : VerifyPassword(p)
    \/ \E a \in ListArgs : GetDailyEntries(a[1], a[2])
    \/ \E e \in Entries : SaveDailyEntry(e)
    \/ \E d \in Dates : DeleteDailyEntry(d)
    \/ GetAppData
    \/ \E a \in AppDatas : SaveAppData(a)
    \/ Relaunch
    \/ Return

Spec == Init /\ [][Next]_vars

\* The whole application: the handlers above, the remembered password, the
\* password screen and the logout button.
NextSession ==
    \/ SelectDataFolder
    \/ GetDataPath
    \/ \E p \in Passwords, r \in BOOLEAN : SetPassword(p, r)
    \/ GetSavedPassword
    \/ ClearSavedPassword
    \/ \E p \in Passwords : VerifyPassword(p)
    \/ \E a \in ListArgs : GetDailyEntries(a[1], a[2])
    \/ \E e \in Entries : SaveDailyEntry(e)
    \/ \E d \in Dates : DeleteDailyEntry(d)
    \/ GetAppData
    \/ \E a \in AppDatas : SaveAppData(a)
    \/ \E p \in Passwords, r \in BOOLEAN : HandleSubmit(p, r)
    \/ HandleLogout
    \/ Relaunch
    \/ Return

SpecSession == Init /\ [][NextSession]_vars

SaveDailyEntryBegin(entry) == SaveDailyEntryStep(FALSE, entry)

SaveAppDataBegin(data) == SaveAppDataStep(FALSE, data)

\* Handlers interleave at their awaits: while the fs.writeFile of a save is
\* open, the handlers that read run, and the process may be killed.  The
\* session handlers are left to SpecSession; a password is set by verify-password.
NextAsync ==
    \/ SelectDataFolder
    \/ GetDataPath
    \/ \E p \in Passwords : VerifyPassword(p)
    \/ GetDailyEntries(None, None)
    \/ \E e \in ValidEntries : SaveDailyEntryBegin(e)
    \/ GetAppData
    \/ SaveAppDataBegin(CustomAppData)
    \/ FinishWrite
    \/ Relaunch
    \/ Return

SpecAsync == Init /\ [][NextAsync]_vars

\* The password handlers and screens over the password file and the settings
\* document, the record files left aside.
NextPassword ==
    \/ SelectDataFolder
    \/ GetDataPath
    \/ \E p \in Passwords, r \in BOOLEAN : SetPassword(p, r)
    \/ GetSavedPassword
    \/ ClearSavedPassword
    \/ \E p \in Passwords : VerifyPassword(p)
    \/ GetAppData
    \/ \E a \in AppDatas : SaveAppData(a)
    \/ \E p \in Passwords, r \in BOOLEAN : HandleSubmit(p, r)
    \/ HandleLogout
    \/ Relaunch
    \/ Return

SpecPassword == Init /\ [][NextPassword]_vars

\* The settings document alone: its two handlers, the password handlers that
\* decide its key, and the relaunch.
NextSettings ==
    \/ SelectDataFolder
    \/ GetDataPath
    \/ \E p \in Passwords : SetPassword(p, FALSE)
    \/ \E p \in Passwords : VerifyPassword(p)
    \/ GetAppData
    \/ \E a \in SettingsDocs : SaveAppData(a)
    \/ Relaunch
    \/ Return

SpecSettings == Init /\ [][NextSettings]_vars

\* The formats and bounds the export dialog of the renderer passes.
ExportArgs == {<<f, a[1], a[2]>> : f \in {"csv", "json"}, a \in ListArgs}

\* The search and the export over the record files: the days are saved, the
\* session password changes, and the two handlers read what is there.
NextQuery ==
    \/ SelectDataFolder
    \/ \E p \in Passwords : SetPassword(p, FALSE)
    \/ \E e \in QueryEntries : SaveDailyEntry(e)
    \/ \E q \in Queries, t \in TagLists : SearchEntries(q, t)
    \/ \E a \in ExportArgs : ExportData(a[1], a[2], a[3])
    \/ Return

SpecQuery == Init /\ [][NextQuery]_vars

\* save-daily-entry alone, over days that break the schema in every combination.
NextValidation ==
    \/ SelectDataFolder
    \/ \E e \in ValidationInputs : SaveDailyEntry(e)
    \/ Return

SpecValidation == Init /\ [][NextValidation]_vars

\* A listing with a delete interleaved between its readdir and its reads, on
\* a store written without a password (every file decodes).
NextScan ==
    \/ SelectDataFolder
    \/ \E e \in QueryEntries : SaveDailyEntry(e)
    \/ GetDailyEntriesBegin(None, None)
    \/ \E d \in Dates : DeleteMidScan(d)
    \/ FinishScan
    \/ Return

SpecScan == Init /\ [][NextScan]_vars

\* The food library: foods are added in FoodLibrary and selected in
\* MealLogger and QuickEntry; Dashboard reloads the document now and then.
NextLibrary ==
    \/ SelectDataFolder
    \/ LoadAppData
    \/ \E f \in FoodForms : HandleSaveFood(f)
    \/ \E i \in 1..MaxFoods : HandleAddSavedFood(i)
    \/ \E i \in 1..MaxFoods, b \in BOOLEAN : HandleToggleFood(i, b)
    \/ Return

SpecLibrary == Init /\ [][NextLibrary]_vars

\* The three kinds of file side by side: records are saved and deleted and
\* the settings saved while a remembered password is on disk.
NextFiles ==
    \/ SelectDataFolder
    \/ \E r \in BOOLEAN : SetPassword("hunter2", r)
    \/ \E e \in Entries : SaveDailyEntry(e)
    \/ \E d \in Dates : DeleteDailyEntry(d)
    \/ \E a \in AppDatas : SaveAppData(a)
    \/ Return

SpecFiles == Init /\ [][NextFiles]_vars

\* The weight tracker: the document is loaded, and weights are added as the
\* days go by.
NextWeight ==
    \/ SelectDataFolder
    \/ LoadAppData
    \/ \E w \in Weights, today \in WeightDays : HandleAddWeight(w, today)
    \/ Return

SpecWeight == Init /\ [][NextWeight]_vars

----------------------------------------------------------------------------
(* Claims about the record store *)

\* What list() can return in this state: get-daily-entries without bounds.
ListOutcomes == DailyEntriesOutcomes(daily, encryptionPassword, dataPath, None, None)

\* The fields a DailyRecord is made of, the store-assigned id aside.
SameRecord(a, b) ==
    /\ IsObject(a)
    /\ IsObject(b)
    /\ {"date", "meals"} \subseteq DOMAIN a \cap DOMAIN b
    /\ a.date = b.date
    /\ a.meals = b.meals
    /\ a.water = b.water
    /\ a.exercise = b.exercise
    /\ a.weight = b.weight
    /\ a.notes = b.notes
    /\ a.tags = b.tags

\* The file of `d` decodes under the session password, whatever decrypt does.
Readable(d) == \A o \in ReadEntryOutcomes(d, daily[d], encryptionPassword) : o.ok

\* A save-daily-entry that wrote its file has just returned.
SaveSucceeded == ret.op = "save-daily-entry" /\ ret.val.success

\* C1: round trip.  Right after save(r) has succeeded under the session
\* password, list() under that same password returns a record for r.date whose
\* date, meals, water, exercise, weight, notes and tags are those of r.
C1_RoundTrip ==
    SaveSucceeded =>
        \A entries \in ListOutcomes :
            \E i \in DOMAIN entries : SameRecord(entries[i], ret.arg.entry)

\* The file is a record written by a save made under `password`.
WrittenUnder(file, password) ==
    /\ file.kind = "record"
    /\ IF Truthy(password)
       THEN file.content.kind = "cipher" /\ file.content.key = password
       ELSE file.content.kind = "json"

\* C2: upsert.  Whatever was saved and deleted so far, list() returns no two
\* records of one date, and the record it returns for a file saved under the
\* session password is the record last saved for its date and nothing else:
\* every field is that save's, the id being the date the store keys it by.
C2_Upsert ==
    \A entries \in ListOutcomes :
        /\ \A i, j \in DOMAIN entries : entries[i].date = entries[j].date => i = j
        /\ \A i \in DOMAIN entries :
              /\ entries[i].id.v \in Dates
              /\ WrittenUnder(daily[entries[i].id.v], encryptionPassword) =>
                    /\ lastSaved[entries[i].id.v].some
                    /\ entries[i] = [lastSaved[entries[i].id.v].v
                                         EXCEPT !.id = Some(entries[i].id.v)]

\* C2 witness: a save has just replaced the file of a date that held another
\* record, and list() returns the date's record.
C2_Witness ==
    /\ SaveSucceeded
    /\ ret.was.kind = "record"
    /\ ret.was # daily[ret.val.id]
    /\ ~SameRecord(BareDay(ret.val.id), ret.arg.entry)
    /\ \E entries \in ListOutcomes : \E i \in DOMAIN entries : entries[i].date = ret.val.id

\* C3: one unreadable record does not block the rest.  list() returns every
\* record whose file decodes, and an element (a placeholder) for each file
\* that does not: it neither drops the bad one nor fails or empties the result.
C3_UnreadableDoesNotBlock ==
    dataPath # NULL =>
        \A entries \in ListOutcomes :
            \A d \in MdFiles(daily) :
                /\ \E i \in DOMAIN entries : entries[i].id = Some(d)
                /\ Readable(d) =>
                      \E i \in DOMAIN entries : SameRecord(entries[i], lastSaved[d].v)

----------------------------------------------------------------------------
(* Claims about the password check *)

\* The settings document was written under a password other than `password`.
SavedUnderOther(file, password) ==
    /\ file.kind = "text"
    /\ file.content.kind = "cipher"
    /\ file.content.key # password

\* C4: a wrong password is rejected without touching the session.  When the
\* settings document was saved under a password p, verify-password with
\* another candidate returns false and leaves the session password as it was.
C4_WrongPasswordRejected ==
    [][(ret'.op = "verify-password" /\ ret.op = "idle"
            /\ SavedUnderOther(appData, ret'.arg.password))
          => (ret'.val = FALSE /\ encryptionPassword' = encryptionPassword)]_vars

\* C5: first-run bootstrap.  With a data path set and no settings document,
\* verify-password returns true for the candidate, whichever it is, and the
\* candidate is the session password from then on.
C5_Bootstrap ==
    (ret.op = "verify-password" /\ dataPath # NULL /\ ~Exists(appData))
        => (ret.val = TRUE /\ encryptionPassword = ret.arg.password)

\* C5 witness: with no settings document, verify-password has accepted a
\* candidate that is not the password the record files were saved under.
C5_Witness ==
    /\ ret.op = "verify-password"
    /\ dataPath # NULL
    /\ ~Exists(appData)
    /\ ret.val = TRUE
    /\ encryptionPassword = ret.arg.password
    /\ \E d \in Dates : Exists(daily[d]) /\ ~WrittenUnder(daily[d], ret.arg.password)

----------------------------------------------------------------------------
(* Claims about writes and deletes *)

\* C6: atomic writes.  At every instant, whatever runs beside a save and
\* wherever the process is killed, each record file and the settings file
\* hold a complete content or do not exist: none is partially written.
C6_AtomicWrites ==
    /\ \A d \in Dates : daily[d].kind # "torn"
    /\ appData.kind # "torn"

\* C7: idempotent delete.  delete(date) for a date that has no record file
\* (a second delete right after a first one included) reports success.
C7_IdempotentDelete ==
    (ret.op = "delete-daily-entry" /\ dataPath # NULL /\ ~Exists(ret.was))
        => ret.val.success

\* Whether the day `d` lies between the bounds, each inclusive, an omitted
\* bound not constraining.
InRange(d, startDate, endDate) ==
    /\ startDate.some => GetTime(startDate.v) <= GetTime(d)
    /\ endDate.some => GetTime(d) <= GetTime(endDate.v)

\* C8: range filter and order.  list(start, end) returns exactly the stored
\* records whose date lies between start and end, both inclusive, an omitted
\* bound not constraining, ordered by date descending.
C8_RangeFilterAndOrder ==
    dataPath # NULL =>
        \A a \in ListArgs :
            \A entries \in DailyEntriesOutcomes(daily, encryptionPassword, dataPath, a[1], a[2]) :
                /\ {entries[i].id.v : i \in DOMAIN entries}
                       = {d \in MdFiles(daily) : InRange(d, a[1], a[2])}
                /\ \A i, j \in DOMAIN entries :
                       i < j => GetTime(entries[i].date) > GetTime(entries[j].date)

\* The reply to a save whose argument fails validation.
InvalidSave(r) ==
    \/ r.op = "save-daily-entry" /\ r.arg.entry \in InvalidEntries
    \/ r.op = "save-app-data" /\ r.arg.data \in InvalidAppData

----------------------------------------------------------------------------
(* Claims about the session *)

\* C10: logout clears the session password.  Once the user has logged out,
\* the session password of the main process is unset.
C10_LogoutClearsPassword ==
    ret.op = "handleLogout" => encryptionPassword = NULL

----------------------------------------------------------------------------
(* Claims about the settings document *)

\* The document a settings file was written from.
DocOf(file) ==
    IF file.content.kind = "cipher" THEN file.content.plain.value ELSE file.content.value

\* The settings file decodes under the session password.
SettingsDecodes ==
    /\ appData.kind = "text"
    /\ IF Truthy(encryptionPassword)
       THEN appData.content.kind = "cipher" /\ appData.content.key = encryptionPassword
       ELSE appData.content.kind = "json"

C12_DefaultsNotPersistedAsStated ==
    [][(ret.op = "idle" /\ ret'.op = "get-app-data" /\ ~Exists(appData))
          => /\ ret'.val = Some(DefaultAppData)
             /\ ~Exists(appData')]_vars

\* C12: defaults are not persisted.  With a data folder selected and no
\* settings file, get-app-data returns the fixed defaults (goals
\* 2000/150/200/65/180/8, no saved foods, recent meals or weight history) and
\* creates no file: verify-password still accepts every candidate.  With no
\* data folder selected it returns null, and creates no file either.
C12_DefaultsNotPersisted ==
    [][(ret.op = "idle" /\ ret'.op = "get-app-data" /\ ~Exists(appData))
          => /\ ~Exists(appData')
             /\ dataPath = NULL => ret'.val = None
             /\ dataPath # NULL =>
                   /\ ret'.val.some
                   /\ ret'.val.v.goals = [dailyCalories |-> 2000, protein |-> 150,
                                          carbs |-> 200, fats |-> 65,
                                          targetWeight |-> Some(180), waterGlasses |-> 8]
                   /\ ret'.val.v.savedFoods = <<>>
                   /\ ret'.val.v.recentMeals = <<>>
                   /\ ret'.val.v.weightHistory = <<>>
                   /\ \A p \in Passwords : VerifyOutcomes(p)' = {TRUE}]_vars

\* C12 witness: under a session password, with a data folder and no settings
\* file, get-app-data has returned the defaults and there is still no file.
C12_Witness ==
    /\ ret.op = "get-app-data"
    /\ dataPath # NULL
    /\ encryptionPassword # NULL
    /\ ~Exists(appData)
    /\ ret.val = Some(DefaultAppData)

\* C13: a settings file that does not decode under the session password makes
\* get-app-data report a failure of its own, one the caller can tell from
\* what it gets when no data folder is selected (null).
C13_CorruptSettingsDistinct ==
    (ret.op = "get-app-data" /\ dataPath # NULL /\ Exists(appData) /\ ~SettingsDecodes)
        => (~ret.val.some /\ ret.val # None)

----------------------------------------------------------------------------
(* Claims about the remembered password *)

\* C14: remembered password.  When set-password(p, true) returns with a data
\* folder selected, the password file exists, the settings document is what
\* it was (the two are different files), the file holds p encrypted under the
\* application's name (not p itself, and not keyed by p), and
\* get-saved-password returns p.
C14_RememberedPassword ==
    [][(ret.op = "idle" /\ ret'.op = "set-password" /\ ret'.arg.remember /\ dataPath # NULL)
          => /\ Exists(passwordFile')
             /\ appData' = appData
             /\ FileText(passwordFile') = Encrypt(PlainText(ret'.arg.password), AppName)
             /\ FileText(passwordFile') # PlainText(ret'.arg.password)
             /\ FileText(passwordFile').key # ret'.arg.password
             /\ SavedPasswordOutcomes' = {Some(ret'.arg.password)}]_vars

\* C14 witness: beside a settings document, set-password(p, true) has
\* written the password file, and get-saved-password returns p.
C14_Witness ==
    /\ ret.op = "set-password"
    /\ ret.arg.remember
    /\ dataPath # NULL
    /\ Exists(appData)
    /\ passwordFile # appData
    /\ SavedPasswordOutcomes = {Some(ret.arg.password)}

\* C15: the password is on disk only if Remember me was checked.  After a
\* login submitted with Remember me unchecked there is no password file, and
\* get-saved-password returns null.
C15_StoredOnlyIfRemembered ==
    (ret.op = "handleSubmit" /\ ret.val = TRUE /\ ~ret.arg.rememberMe)
        => (~Exists(passwordFile) /\ SavedPasswordOutcomes = {None})

\* C16: with a data folder selected and no password file, get-saved-password
\* returns null and clear-saved-password returns true, as often as it is called.
C16_MissingPasswordFile ==
    (dataPath # NULL /\ ~Exists(passwordFile))
        => /\ ret.op = "get-saved-password" => ret.val = None
           /\ ret.op = "clear-saved-password" => ret.val = TRUE

----------------------------------------------------------------------------
(* Claims about the search and the export *)

\* The text predicate: q is blank, or occurs without regard to case in the
\* notes of the record or in the name of one of its foods.
TextPredicate(r, q) ==
    \/ IsBlank(q)
    \/ r.notes.some /\ Includes(ToLowerCase(Chars(r.notes.v)), ToLowerCase(q))
    \/ \E i \in DOMAIN r.meals : \E j \in DOMAIN r.meals[i].foods :
          Includes(ToLowerCase(Chars(r.meals[i].foods[j].name)), ToLowerCase(q))

\* The tag predicate: no tag is asked for, or the record has one of those asked for.
TagPredicate(r, tags) ==
    \/ tags = <<>>
    \/ \E k \in DOMAIN tags : \E t \in DOMAIN r.tags : r.tags[t] = tags[k]

\* The dates of the entries a handler returned.
ReturnedDates == {ret.val[i].id.v : i \in DOMAIN ret.val}

\* C17: search(q, tags) returns exactly the stored records that satisfy the
\* text predicate and the tag predicate.
C17_SearchReturnsMatches ==
    (ret.op = "search-entries" /\ dataPath # NULL)
        => ReturnedDates = {d \in MdFiles(daily) :
                               /\ TextPredicate(lastSaved[d].v, ret.arg.query)
                               /\ TagPredicate(lastSaved[d].v, ret.arg.tags)}

\* C18: the records search returns are in descending order of date, in
\* whatever order the directory lists the files.
C18_SearchDateDescending ==
    ret.op = "search-entries"
        => \A i, j \in DOMAIN ret.val :
              i < j => StrLess(ret.val[j].id.v, ret.val[i].id.v)

\* The sum of the values of a function over its (finite) domain.
RECURSIVE SumFn(_)
SumFn(f) ==
    IF DOMAIN f = {} THEN 0
    ELSE LET x == CHOOSE x \in DOMAIN f : TRUE
         IN  f[x] + SumFn([y \in DOMAIN f \ {x} |-> f[y]])

\* One nutrient of a record summed over all foods of all meals.
NutrientSum(r, nutrient) ==
    LET foods == UNION {{<<i, j>> : j \in DOMAIN r.meals[i].foods} : i \in DOMAIN r.meals}
    IN  SumFn([p \in foods |-> r.meals[p[1]].foods[p[2]][nutrient]])

\* Whether the reply waiting is that of a csv export whose dialog named a file.
CsvExported == ret.op = "export-data" /\ ret.arg.format = "csv" /\ ~ret.arg.canceled

\* The rows of the csv file the export wrote.
ExportedRows == FileText(exportFile).rows

\* C19: export('csv', start, end) writes the header line and then exactly one
\* row for each record in the inclusive date range, whose calories, protein,
\* carbs and fats fields are the sums over all foods of all meals of the record.
C19_CsvRowsAndSums ==
    (CsvExported /\ dataPath # NULL)
        => /\ ret.val.success
           /\ FileText(exportFile).kind = "csv"
           /\ FileText(exportFile).header = CsvHeader
           /\ Len(ExportedRows)
                = Cardinality({d \in MdFiles(daily) :
                                  InRange(d, ret.arg.startDate, ret.arg.endDate)})
           /\ {ExportedRows[i][1] : i \in DOMAIN ExportedRows}
                = {d \in MdFiles(daily) : InRange(d, ret.arg.startDate, ret.arg.endDate)}
           /\ \A i \in DOMAIN ExportedRows :
                 LET r == lastSaved[ExportedRows[i][1]].v
                 IN  /\ ExportedRows[i][2] = NumText(NutrientSum(r, "calories"))
                     /\ ExportedRows[i][3] = NumText(NutrientSum(r, "protein"))
                     /\ ExportedRows[i][4] = NumText(NutrientSum(r, "carbs"))
                     /\ ExportedRows[i][5] = NumText(NutrientSum(r, "fats"))

\* C20: in every csv row the weight field is blank exactly when the record
\* has no weight, and holds the weight otherwise (0 included); the exercise
\* field is 0 exactly when the record has no exercise or one that burned 0.
C20_CsvWeightAndExercise ==
    (CsvExported /\ ret.val.success)
        => \A i \in DOMAIN ExportedRows :
              LET r == lastSaved[ExportedRows[i][1]].v
              IN  /\ ExportedRows[i][7] = <<>> <=> ~r.weight.some
                  /\ r.weight.some => ExportedRows[i][7] = NumText(r.weight.v)
                  /\ ExportedRows[i][6] = <<"0">>
                        <=> (~r.exercise.some \/ r.exercise.v.caloriesBurned = 0)

----------------------------------------------------------------------------
(* Claims about validation, decoding and the passwords of the store *)

\* The field paths the error of the reply waiting names (none when it is no failure).
NamedPaths == IF ret.val.success THEN {} ELSE ret.val.error.issues

\* C21: when a record breaks several rules at once, the validation result is
\* a rejection whose error names the path of every field at fault: the date,
\* water.glasses, water.ounces, the weight, and the mealType of each meal
\* that has a wrong one.
C21_EveryViolationNamed ==
    (ret.op = "save-daily-entry" /\ dataPath # NULL)
        => LET e == ret.arg.entry
           IN  /\ ~MatchesDateRegex(e.date) => <<"date">> \in NamedPaths
               /\ (e.water.glasses < 0 \/ e.water.glasses > 50)
                     => <<"water", "glasses">> \in NamedPaths
               /\ (e.water.ounces < 0 \/ e.water.ounces > 400)
                     => <<"water", "ounces">> \in NamedPaths
               /\ (e.weight.some /\ (e.weight.v < 0 \/ e.weight.v > 1000))
                     => <<"weight">> \in NamedPaths
               /\ \A i \in DOMAIN e.meals :
                     e.meals[i].mealType \notin {"breakfast", "lunch", "dinner", "snack"}
                        => <<"meals", Digits[i], "mealType">> \in NamedPaths

\* C21 witness: a save of a day with 51 glasses of water and a brunch has
\* been rejected with an error that names both fields.
C21_Witness ==
    /\ ret.op = "save-daily-entry"
    /\ dataPath # NULL
    /\ ret.arg.entry.water.glasses = 51
    /\ ret.arg.entry.meals[1].mealType = "brunch"
    /\ ~ret.val.success
    /\ {<<"water", "glasses">>, <<"meals", "0", "mealType">>} \subseteq ret.val.error.issues

\* C22: decoding follows the header flag.  A record file whose header says
\* encrypted: false is read as raw JSON whatever the session password is:
\* list() returns the record last saved for its date.
C22_DecodingFollowsHeader ==
    dataPath # NULL =>
        \A entries \in ListOutcomes :
            \A d \in MdFiles(daily) :
                ~Matter(daily[d]).data.encrypted =>
                    \E i \in DOMAIN entries : SameRecord(entries[i], lastSaved[d].v)

\* The record file decodes for a session under `password`: its body is raw
\* JSON (encrypted: false), or was encrypted under `password`.
DecodesFor(file, password) ==
    /\ file.kind = "record"
    /\ file.content.kind = "cipher" => file.content.key = password

\* C23: whenever verify-password has returned true for a candidate, every
\* record file in daily/ decodes with that candidate; the first-run path
\* (no settings document) is taken only when the store holds no file
\* encrypted under another password.
C23_VerifiedPasswordOpensStore ==
    (ret.op = "verify-password" /\ ret.val = TRUE)
        => \A d \in MdFiles(daily) : DecodesFor(daily[d], ret.arg.password)

\* The passwords the encrypted files of the store were encrypted under.
StoreKeys ==
    {daily[d].content.key : d \in {d \in MdFiles(daily) : /\ daily[d].kind = "record"
                                                          /\ daily[d].content.kind = "cipher"}}
    \cup (IF FileText(appData).kind = "cipher" THEN {FileText(appData).key} ELSE {})

\* C24: in every reachable state the encrypted record files and the settings
\* document are all encrypted under one password.
C24_OnePassword == Cardinality(StoreKeys) <= 1

\* C25: when a record file is deleted between the directory enumeration of
\* list() and its own read, only that record is affected: list() still
\* returns the record of every other file.
C25_MidScanDeleteAffectsOne ==
    (ret.op = "get-daily-entries" /\ "listed" \in DOMAIN ret.arg)
        => \A d \in MdFiles(daily) :
              \E i \in DOMAIN ret.val : SameRecord(ret.val[i], lastSaved[d].v)

\* C27: save(record) for date d and delete(d) change no file but daily/d.md
\* (the record files of the other dates, the settings document and the
\* password file stay as they are), and a save of the settings document
\* changes no record file and not the password file.
C27_FrameOfSaves ==
    [][/\ (ret'.op = "save-daily-entry" /\ ret.op = "idle")
            => /\ \A d \in Dates : d # ret'.arg.entry.date => daily'[d] = daily[d]
               /\ UNCHANGED <<appData, passwordFile>>
       /\ (ret'.op = "delete-daily-entry" /\ ret.op = "idle")
            => /\ \A d \in Dates : d # ret'.arg.entryId => daily'[d] = daily[d]
               /\ UNCHANGED <<appData, passwordFile>>
       /\ (ret'.op = "save-app-data" /\ ret.op = "idle")
            => UNCHANGED <<daily, passwordFile>>]_vars

\* C27 witness: a save has replaced the record of one date while another
\* date has its record, and the settings document and the password file exist.
C27_Witness ==
    /\ ret.op = "save-daily-entry"
    /\ ret.val.success
    /\ ret.was.kind = "record"
    /\ ret.was # daily[ret.val.id]
    /\ \E d \in Dates : d # ret.val.id /\ Exists(daily[d])
    /\ Exists(appData)
    /\ Exists(passwordFile)

\* Whether the text is HH:MM of a 24-hour clock: hours 00 to 23, minutes 00 to 59.
IsClockTime(t) ==
    /\ Len(t) = 5
    /\ \A i \in {1, 2, 4, 5} : IsDigit(t[i])
    /\ t[3] = ":"
    /\ 10 * DigitVal(t[1]) + DigitVal(t[2]) <= 23
    /\ 10 * DigitVal(t[4]) + DigitVal(t[5]) <= 59

\* C28: validation rejects every meal whose time is no valid 24-hour HH:MM
\* value, so no record with such a time is ever written: every meal of every
\* record saved to the store has a clock time.
C28_MealTimesAreClockTimes ==
    \A d \in Dates :
        lastSaved[d].some =>
            \A i \in DOMAIN lastSaved[d].v.meals : IsClockTime(lastSaved[d].v.meals[i].time)

----------------------------------------------------------------------------
(* Claims about the renderer's read-modify-write of the settings document *)

\* The reply is that of a selection of a saved food that saved the document.
FoodSelected(r) ==
    /\ r.op \in {"handleAddSavedFood", "handleToggleFood"}
    /\ r.val.success

\* The names of the saved foods of a document are all different.
NamesDistinct(doc) ==
    \A i, j \in DOMAIN doc.savedFoods :
        doc.savedFoods[i].name = doc.savedFoods[j].name => i = j

\* C26: each selection of a saved food raises the stored use count of that
\* food by exactly 1 and keeps the increments made before: the stored use
\* count of every other food is what it was.  (Stated for libraries whose
\* names are all different; entries that share a name are left to C30.)
C26_UseCountRaisedByOne ==
    [][(ret.op = "idle" /\ FoodSelected(ret') /\ NamesDistinct(DocOf(appData)))
          => LET before == DocOf(appData).savedFoods
                 after  == DocOf(appData').savedFoods
             IN  /\ DOMAIN after = DOMAIN before
                 /\ \A k \in DOMAIN before :
                       after[k].useCount =
                          IF before[k].id = ret'.arg.savedFood.id
                          THEN before[k].useCount + 1 ELSE before[k].useCount]_vars

\* The entries of the stored history dated within the 7 days ending on `today`.
LoggedThisWeek(today) ==
    {i \in DOMAIN DocOf(appData).weightHistory :
        LET date == DocOf(appData).weightHistory[i].date
        IN  GetTime(today) - 6 <= GetTime(date) /\ GetTime(date) <= GetTime(today)}

\* The stored history has no entry dated after `today`.
NotBefore(today) ==
    \A i \in DOMAIN DocOf(appData).weightHistory :
        GetTime(DocOf(appData).weightHistory[i].date) <= GetTime(today)

\* C29: weight logging is limited to 3 a week.  After any sequence of adds
\* the stored history holds at most 3 entries dated within the 7 days ending
\* today, whichever day today is; and an add attempted when 3 such entries
\* exist is refused and leaves the settings document as it is.
C29_ThreeWeightsAWeek ==
    [][/\ Exists(appData') =>
             \A today \in WeightDays :
                 NotBefore(today)' => Cardinality(LoggedThisWeek(today)') <= 3
       /\ (ret'.op = "handleAddWeight" /\ ret.op = "idle" /\ Exists(appData)
              /\ Cardinality(LoggedThisWeek(ret'.arg.today)) = 3)
            => (~ret'.val.success /\ appData' = appData)]_vars

\* C29 witness: with 3 entries of the week stored, among 4 in all, an add of
\* a valid weight has been refused.
C29_Witness ==
    /\ ret.op = "handleAddWeight"
    /\ ret.arg.weight = 180
    /\ ~ret.val.success
    /\ Exists(appData)
    /\ Len(DocOf(appData).weightHistory) = 4
    /\ Cardinality(LoggedThisWeek(ret.arg.today)) = 3

\* C30: saved-food ids stay unique in the stored library: whatever is added
\* and selected, no two entries of savedFoods have the same id.
C30_SavedFoodIdsUnique ==
    Exists(appData) =>
        \A i, j \in DOMAIN DocOf(appData).savedFoods :
            DocOf(appData).savedFoods[i].id = DocOf(appData).savedFoods[j].id => i = j
====
